---- MODULE Spec2Model ----
(***************************************************************************)
(* Model of src/src/mcp_browser_use/server.py: the process-wide session    *)
(* state (browser, current_page, _selector_map, _last_inspected_url) and    *)
(* the MCP tools that read and change it.  The browser engine is external:  *)
(* what a page does when it is clicked, typed into or scripted is a         *)
(* nondeterministic choice among InPageEffects and NewTabEffects.          *)
(***************************************************************************)
EXTENDS Integers, Sequences, FiniteSets, TLC

\* ------------------------------------------------------------------ bounds
\* The engine never has more than MaxPages pages open, but for the click of
\* SpecPopups that opens two pages at once.
MaxPages == 2

\* ------------------------------------------------------------------ the web
\* The URLs a page can be at.  "G" is the Google result URL search_google
\* builds for the one query of the model.
Urls == {"about:blank", "A", "G"}
Queries == {"q"}
SearchUrl(query) == "G"

NoUrl == "None"
NoPage == 0
NoElement == 0

\* An element of a document: id is its DOM identity, sel the path cssPath
\* computes for it, vis the outcome of isVisible.
El(id, sel, tag, type, vis, options) ==
    [id |-> id, sel |-> sel, tag |-> tag, type |-> type, vis |-> vis, options |-> options]

Opt(text, value) == [text |-> text, value |-> value]

\* The documents of the model, each the list of nodes the scan's
\* querySelectorAll returns, in document order.  A1 is page A as loaded: a
\* button, a hidden input and a select.  A2 is page A after an in-page DOM
\* change: the first button is gone, so the second button (id 4) now has the
\* path the first one had, and the select is gone.  G1 holds two links whose
\* capped paths coincide, and a file input.
DocNames == {"blank", "A1", "A2", "G1"}
DocUrl(d) ==
    CASE d = "blank" -> "about:blank"
      [] d = "A1" -> "A"
      [] d = "A2" -> "A"
      [] d = "G1" -> "G"
DocNodes(d) ==
    CASE d = "blank" -> << >>
      [] d = "A1" -> << El(1, "q1", "button", "", TRUE, << >>),
                        El(2, "q2", "input", "text", FALSE, << >>),
                        El(3, "q3", "select", "", TRUE,
                           << Opt("Red", "r"), Opt("Blue", "b") >>) >>
      [] d = "A2" -> << El(4, "q1", "button", "", TRUE, << >>) >>
      [] d = "G1" -> << El(5, "q1", "a", "", TRUE, << >>),
                        El(6, "q1", "a", "", TRUE, << >>),
                        El(7, "q4", "input", "file", TRUE, << >>) >>
\* The document a page shows right after loading url.
InitialDoc(url) ==
    CASE url = "about:blank" -> "blank"
      [] url = "A" -> "A1"
      [] url = "G" -> "G1"
\* The document after an in-page DOM change.
Mutated(d) == IF d = "A1" THEN "A2" ELSE d

\* What a page may do in response to an event: nothing, change its DOM,
\* navigate in place, or (for a click) open one or two new pages.
Eff(kind, url, n) == [kind |-> kind, url |-> url, n |-> n]
InPageEffects ==
    {Eff("none", NoUrl, 0), Eff("mutate", NoUrl, 0)} \cup {Eff("nav", u, 0) : u \in Urls \ {"about:blank"}}
NewTabEffects == {Eff("newtab", u, n) : u \in Urls, n \in 1..2}

VARIABLES
    browser,             \* TRUE iff the global browser is not None
    pageDoc,             \* the engine's open pages, in get_pages order: page p shows pageDoc[p]
    current_page,        \* the global current_page: NoPage or a page
    selector_map,        \* the global _selector_map: index -> selector
    last_inspected_url,  \* the global _last_inspected_url
    denoted,             \* history: index -> identity of the element it was assigned to
    last,                \* history: the last tool call and its outcome
    inflight,            \* an inspect_page call suspended at one of its awaits
    scan                 \* a DOM tree the snapshot script runs on, and what it returned

vars == <<browser, pageDoc, current_page, selector_map, last_inspected_url, denoted, last,
          inflight, scan>>

EmptyMap == [i \in {} |-> ""]

\* The outcome of a tool call.  raised: the call ended in an exception.
\* index, url, ord: its arguments (for inspect_page: the page it scanned and
\* the URL that page was at).  acted: the element it acted on.
\* expected: the element its index denoted at the snapshot.  stale: its index
\* was in the mapping and its selector matched no live element.  said: the
\* parts of the returned text that vary with the call.  events: the starts and
\* stops of browsers the call made, in order.  sensitive: the has_sensitive_data
\* argument.
Result(tool, outcome, raised) ==
    [tool |-> tool, outcome |-> outcome, raised |-> raised, index |-> 0, url |-> NoUrl,
     ord |-> 0, acted |-> NoElement, expected |-> NoElement, stale |-> FALSE,
     listing |-> << >>, text |-> "", said |-> << >>, events |-> << >>,
     sensitive |-> FALSE]

\* No inspect_page call is suspended.  Otherwise pc is the await the call is
\* suspended at, page its local variable page, and doc the document the scan
\* ran on.
NoDoc == "none"
Idle == [pc |-> "idle", page |-> NoPage, doc |-> NoDoc]

\* No tree is under the snapshot script.  Otherwise dom is the tree, items
\* what the script returned once done, and hits the elements a later query
\* for the selector of items[picked] finds.
NoScan == [dom |-> << >>, done |-> FALSE, items |-> << >>, picked |-> 0, hits |-> {}]

Init ==
    /\ scan = NoScan
    /\ inflight = Idle
    /\ browser = FALSE
    /\ pageDoc = << >>
    /\ current_page = NoPage
    /\ selector_map = EmptyMap
    /\ last_inspected_url = NoUrl
    /\ denoted = [i \in {} |-> NoElement]
    /\ last = Result("none", "Ok", FALSE)

\* ------------------------------------------------------------------ helpers
NumConfigs == 3

Url(docs, p) == DocUrl(docs[p])

\* page.get_elements_by_css_selector(selector) / document.querySelector(sel):
\* the elements of the page's document the selector matches, in document order.
NodesOf == [d \in DocNames |-> DocNodes(d)]
Matches(d, sel) == SelectSeq(NodesOf[d], LAMBDA e : e.sel = sel)

\* Variant: the entries above the removed index move down by one, as in a list.
PopRenumbers(map, index) ==
    [i \in {j \in DOMAIN map : j < index} \cup {j - 1 : j \in {k \in DOMAIN map : k > index}}
        |-> IF i < index THEN map[i] ELSE map[i + 1]]
\* _selector_map.pop(index, None)
Pop(map, index) == [i \in DOMAIN map \ {index} |-> map[i]]

\* _require_browser: the guard of every tool that needs the browser.
RequireBrowser == browser

\* _require_page: the page list and the active page after the lazy
\* b.new_page() of a session without an active page.
DocsAfterRequire == IF current_page = NoPage THEN Append(pageDoc, "blank") ELSE pageDoc
\* Variant: the first page of the browser is taken when there is an active page.
PageAfterRequireFirst == IF current_page = NoPage THEN Len(pageDoc) + 1 ELSE 1
PageAfterRequire == IF current_page = NoPage THEN Len(pageDoc) + 1 ELSE current_page
\* Variant: the page is taken or created without asking for the browser.
RequirePageNoBrowser == current_page # NoPage \/ Len(pageDoc) < MaxPages
RequirePage == browser /\ (current_page # NoPage \/ Len(pageDoc) < MaxPages)

\* History: an index that leaves the mapping is forgotten.
Forget == denoted' = [i \in DOMAIN selector_map' |-> denoted[i]]

\* A tool called without a browser: _require_browser raises.
NoSession(tool) ==
    /\ ~browser
    /\ last' = Result(tool, "PreconditionError", TRUE)
    /\ UNCHANGED <<browser, pageDoc, current_page, selector_map, last_inspected_url, denoted,
                   inflight, scan>>

\* _require_page whose b.new_page() raises.
NewPageFails(tool) ==
    /\ browser
    /\ current_page = NoPage
    /\ last' = Result(tool, "EngineError", TRUE)
    /\ UNCHANGED <<browser, pageDoc, current_page, selector_map, last_inspected_url, denoted,
                   inflight, scan>>

\* The page list after page p reacted with effect eff.
ApplyEffect(docs, p, eff) ==
    CASE eff.kind = "none" -> docs
      [] eff.kind = "mutate" -> [docs EXCEPT ![p] = Mutated(@)]
      [] eff.kind = "nav" -> [docs EXCEPT ![p] = InitialDoc(eff.url)]
      [] eff.kind = "newtab" ->
            docs \o [i \in 1..eff.n |-> InitialDoc(eff.url)]
\* The effect leaves no more than cap pages open.
EffectFits(docs, eff, cap) == Len(docs) + eff.n <= cap

\* Variant: the mapping is cleared and the recorded URL is left as it was.
ResetKeepsUrl(new_url) ==
    IF new_url # NoUrl /\ last_inspected_url # NoUrl /\ new_url # last_inspected_url
    THEN /\ selector_map' = EmptyMap
         /\ last_inspected_url' = last_inspected_url
    ELSE UNCHANGED <<selector_map, last_inspected_url>>

\* Variant: the mapping is cleared whatever the URL is.
ResetAlways(new_url) ==
    /\ selector_map' = EmptyMap
    /\ last_inspected_url' = new_url

\* _reset_index_if_navigated(new_url)
ResetIndexIfNavigated(new_url) ==
    IF new_url # NoUrl /\ last_inspected_url # NoUrl /\ new_url # last_inspected_url
    THEN /\ selector_map' = EmptyMap
         /\ last_inspected_url' = new_url
    ELSE UNCHANGED <<selector_map, last_inspected_url>>

\* ------------------------------------------------------------------ session
\* How the start of one configuration ends: browser.start() returns, the
\* 30 s of asyncio.wait_for run out, or an exception is raised.
AttemptOutcomes == {"started", "timeout", "failed"}

\* Variant: the browser of a failed attempt is left running.
AfterFailureNoStop(i) == << >>
\* if browser: try: await browser.stop() except: pass; browser = None
AfterFailure(i) == << <<"stop", i>> >>

\* last_error = f"Configuration {i+1} timed out after 30 seconds" or
\* f"Configuration {i+1} failed: {str(e)}": the configuration and the reason.
LastError(i, outcome) == << i, outcome >>

\* for i, browser_config in enumerate(browser_configs): the loop from
\* configuration i on, with att[j] the way configuration j ends if started.
RECURSIVE TryConfigs(_, _, _, _)
TryConfigs(att, i, events, last_error) ==
    IF i > NumConfigs
    THEN [adopted |-> 0, events |-> events, last_error |-> last_error]
    ELSE IF att[i] = "started"
    THEN [adopted |-> i, events |-> Append(events, <<"start", i>>), last_error |-> last_error]
    ELSE TryConfigs(att, i + 1, events \o << <<"start", i>> >> \o AfterFailure(i),
                    LastError(i, att[i]))

\* The runs of the loop: every way the starts of the configurations can end.
StartRuns == {TryConfigs(att, 1, << >>, << >>) : att \in [1..NumConfigs -> AttemptOutcomes]}

initialize_browser ==
    /\ \E loop \in StartRuns, pageOk \in BOOLEAN :
           LET started == loop.adopted
               R(outcome, raised) == [Result("initialize_browser", outcome, raised) EXCEPT
                                         !.ord = started, !.events = loop.events]
           IN  IF started = 0
               THEN \* every configuration failed or timed out
                    /\ browser' = FALSE
                    /\ pageDoc' = << >>
                    /\ current_page' = IF browser THEN NoPage ELSE current_page
                    /\ UNCHANGED <<selector_map, last_inspected_url>>
                    /\ last' = [R("StartupFailure", TRUE) EXCEPT !.said = loop.last_error]
               ELSE IF ~pageOk
               THEN \* browser.new_page("about:blank") raises
                    /\ browser' = TRUE
                    /\ pageDoc' = << >>
                    /\ current_page' = IF browser THEN NoPage ELSE current_page
                    /\ UNCHANGED <<selector_map, last_inspected_url>>
                    /\ last' = R("EngineError", TRUE)
               ELSE /\ browser' = TRUE
                    /\ pageDoc' = << "blank" >>
                    /\ current_page' = 1
                    /\ selector_map' = EmptyMap
                    /\ last_inspected_url' = NoUrl
                    /\ last' = R("Ok", FALSE)
    /\ Forget
    /\ UNCHANGED <<inflight, scan>>

close_browser ==
    /\ IF browser
       THEN \E stopRaises \in BOOLEAN :
               /\ browser' = FALSE
               /\ pageDoc' = << >>
               /\ current_page' = NoPage
               /\ selector_map' = EmptyMap
               /\ last_inspected_url' = NoUrl
               /\ last' = IF stopRaises THEN Result("close_browser", "EngineError", TRUE)
                          ELSE Result("close_browser", "Ok", FALSE)
       ELSE /\ last' = Result("close_browser", "Ok", FALSE)
            /\ UNCHANGED <<browser, pageDoc, current_page, selector_map, last_inspected_url>>
    /\ Forget
    /\ UNCHANGED <<inflight, scan>>

\* ------------------------------------------------------------------ navigation
\* Variant: the mapping is kept.
GotoNoClear(url) == selector_map' = selector_map
\* Variant: the mapping is cleared only when the target differs from the
\* recorded URL.
GotoClearIfChanged(url) ==
    selector_map' = IF url # last_inspected_url THEN EmptyMap ELSE selector_map

\* _selector_map.clear() after page.goto(url) / page.go_back()
GotoClear(url) == selector_map' = EmptyMap

\* page.goto(url) on the active page, then _selector_map.clear(); a goto that
\* raises leaves the page and the mapping as they were.
Goto(tool, url, arg) ==
    /\ RequirePage
    /\ browser' = browser
    /\ current_page' = PageAfterRequire
    /\ last_inspected_url' = last_inspected_url
    /\ \E gotoOk \in BOOLEAN :
          IF gotoOk
          THEN /\ pageDoc' = [DocsAfterRequire EXCEPT ![PageAfterRequire] = InitialDoc(url)]
               /\ GotoClear(url)
               /\ last' = [Result(tool, "Ok", FALSE) EXCEPT !.url = arg]
          ELSE /\ pageDoc' = DocsAfterRequire
               /\ selector_map' = selector_map
               /\ last' = [Result(tool, "EngineError", TRUE) EXCEPT !.url = arg]

search_google ==
    /\ \/ NoSession("search_google")
       \/ NewPageFails("search_google")
       \/ \E query \in Queries : Goto("search_google", SearchUrl(query), query)
    /\ Forget
    /\ UNCHANGED <<inflight, scan>>

go_to_url ==
    /\ \/ NoSession("go_to_url")
       \/ NewPageFails("go_to_url")
       \/ \E url \in Urls : Goto("go_to_url", url, url)
    /\ Forget
    /\ UNCHANGED <<inflight, scan>>

\* page.go_back(): the engine goes to the previous history entry, whatever URL
\* that is, or raises when there is none.
go_back ==
    /\ \/ NoSession("go_back")
       \/ NewPageFails("go_back")
       \/ \E url \in Urls : Goto("go_back", url, NoUrl)
    /\ Forget
    /\ UNCHANGED <<inflight, scan>>

\* asyncio.sleep(seconds): the tool touches no state; the active page may load,
\* redirect or change its DOM meanwhile.
wait ==
    /\ /\ last' = Result("wait", "Ok", FALSE)
       /\ UNCHANGED <<browser, current_page, selector_map, last_inspected_url>>
       /\ IF current_page # NoPage
          THEN \E eff \in InPageEffects : pageDoc' = ApplyEffect(pageDoc, current_page, eff)
          ELSE pageDoc' = pageDoc
    /\ Forget
    /\ UNCHANGED <<inflight, scan>>

\* ------------------------------------------------------------------ snapshot
\* The scan of inspect_page's script over the nodes from position i on: the
\* visible nodes whose path is not in uniq yet, in document order.  id is the
\* identity of the node the descriptor was computed from (history only).
RECURSIVE ScanFrom(_, _, _, _)
ScanFrom(nodes, i, uniq, items) ==
    IF i > Len(nodes) THEN items
    ELSE LET el == nodes[i]
         IN  IF ~el.vis \/ el.sel = "" \/ el.sel \in uniq
             THEN ScanFrom(nodes, i + 1, uniq, items)
             ELSE ScanFrom(nodes, i + 1, uniq \cup {el.sel},
                           Append(items, [selector |-> el.sel, tag |-> el.tag,
                                          type |-> el.type, id |-> el.id]))
ScanOf == [d \in DocNames |-> ScanFrom(DocNodes(d), 1, {}, << >>)]
Scan(d) == ScanOf[d]

\* What page.evaluate hands back for the scan: the list, the list as a JSON
\* string, a string that looks like a JSON array and is none, an error string,
\* or a value that is neither a string nor a list.
EvalKinds == {"list", "json", "badjson", "errstr", "other"}
\* Variant: a string is never parsed.
IsElementListNoJson(kind) == kind = "list"
\* The list inspect_page goes on with, if any.
IsElementList(kind) == kind \in {"list", "json"}

\* Variant: enumerate(elements) without start=1.
FirstIndexZero == 1 - 1
\* for i, item in enumerate(elements, start=1): if "selector" in item: map[i] = ...
FirstIndex == 1
BuildMap(elements) ==
    [i \in {FirstIndex + (j - 1) : j \in {k \in 1..Len(elements) : "selector" \in DOMAIN elements[k]}}
        |-> elements[i - FirstIndex + 1].selector]
\* _format_element_line(i, el) for each element: the index a line shows and the
\* node it describes.
Listing(elements) == [j \in 1..Len(elements) |-> [idx |-> FirstIndex + (j - 1), id |-> elements[j].id]]

inspect_page ==
    \/ NoSession("inspect_page")
    \/ NewPageFails("inspect_page")
    \/ /\ RequirePage
       /\ browser' = browser
       /\ pageDoc' = DocsAfterRequire
       /\ current_page' = PageAfterRequire
       /\ UNCHANGED <<inflight, scan>>
       /\ \E kind \in EvalKinds \cup {"raise"} :
             IF kind = "raise"
             THEN \* page.evaluate raises before anything is touched
                  /\ UNCHANGED <<selector_map, last_inspected_url, denoted>>
                  /\ last' = Result("inspect_page", "EngineError", TRUE)
             ELSE IF ~IsElementList(kind)
             THEN /\ selector_map' = EmptyMap
                  /\ last_inspected_url' = last_inspected_url
                  /\ Forget
                  /\ last' = [Result("inspect_page", "ExtractionFailure", FALSE)
                                EXCEPT !.text = kind]
             ELSE LET elements == Scan(DocsAfterRequire[PageAfterRequire])
                  IN  /\ selector_map' = BuildMap(elements)
                      /\ last_inspected_url' = Url(DocsAfterRequire, PageAfterRequire)
                      /\ denoted' = [i \in DOMAIN BuildMap(elements) |-> elements[i - FirstIndex + 1].id]
                      /\ last' = [Result("inspect_page",
                                         IF elements = << >> THEN "NoElements" ELSE "Ok", FALSE)
                                    EXCEPT !.listing = Listing(elements), !.text = kind,
                                           !.ord = PageAfterRequire,
                                           !.url = Url(DocsAfterRequire, PageAfterRequire)]

\* ------------------------------------------------------------------ click, fill
\* The indices a caller passes: every index a snapshot of the model can assign,
\* zero and a negative one.
RECURSIVE MaxLen(_)
MaxLen(S) ==
    IF S = {} THEN 0
    ELSE LET d == CHOOSE x \in S : TRUE
             rest == MaxLen(S \ {d})
         IN  IF Len(Scan(d)) > rest THEN Len(Scan(d)) ELSE rest
Indices == (0 - 1)..MaxLen(DocNames)

\* (await el.get_attribute("tagName")) or "": tagName is a property of the
\* node and no attribute of the markup, so what the lookup yields is up to the
\* engine: the tag name, or nothing.
TagNameAttribute(el) == {el.tag, ""}

\* el_tag.lower() == "input" and el_type.lower() == "file"
IsFileInput(el_tag, el_type) == el_tag = "input" /\ el_type = "file"

\* Variant: the page that was the last one before the click is taken.
SwitchStays(before, after) == before
\* for p in after: if id(p) in new_ids: current_page = p; break
\* Pages before+1..after are the new ones, in get_pages order.
SwitchTarget(before, after) == before + 1

\* if index not in _selector_map: ...; selector = _selector_map[index]
NoSelector == ""
\* Variant: an index one too small is taken as 0-based.
ResolveZeroBased(index) ==
    IF index \in DOMAIN selector_map THEN selector_map[index]
    ELSE IF index + 1 \in DOMAIN selector_map THEN selector_map[index + 1]
    ELSE NoSelector
Resolve(index) == IF index \in DOMAIN selector_map THEN selector_map[index] ELSE NoSelector

Expected(index) == IF index \in DOMAIN denoted THEN denoted[index] ELSE NoElement

ClickElement(cap) ==
    /\ \/ NoSession("click_element")
       \/ NewPageFails("click_element")
       \/ \E index \in Indices :
             LET docs == DocsAfterRequire
                 page == PageAfterRequire
                 R(outcome, raised) == [Result("click_element", outcome, raised) EXCEPT
                                           !.index = index, !.expected = Expected(index)]
             IN  /\ RequirePage
                 /\ browser' = browser
                 /\ IF Resolve(index) = NoSelector
                    THEN /\ pageDoc' = docs
                         /\ current_page' = page
                         /\ UNCHANGED <<selector_map, last_inspected_url>>
                         /\ last' = R("IndexNotFound", TRUE)
                    ELSE LET el_list == Matches(docs[page], Resolve(index))
                         IN  IF el_list = << >>
                             THEN /\ pageDoc' = docs
                                  /\ current_page' = page
                                  /\ selector_map' = Pop(selector_map, index)
                                  /\ last_inspected_url' = last_inspected_url
                                  /\ last' = [R("StaleElement", FALSE) EXCEPT !.stale = TRUE]
                             ELSE \E el_tag \in TagNameAttribute(el_list[1]) :
                                  IF IsFileInput(el_tag, el_list[1].type)
                                  THEN /\ pageDoc' = docs
                                       /\ current_page' = page
                                       /\ UNCHANGED <<selector_map, last_inspected_url>>
                                       /\ last' = R("FilePicker", FALSE)
                                  ELSE
                                  \E eff \in InPageEffects \cup NewTabEffects :
                                     /\ EffectFits(docs, eff, cap)
                                     /\ pageDoc' = ApplyEffect(docs, page, eff)
                                     /\ last' = [R("Ok", FALSE) EXCEPT !.acted = el_list[1].id,
                                                    !.text = IF Len(pageDoc') > Len(docs)
                                                             THEN "new tab" ELSE ""]
                                     /\ IF Len(pageDoc') > Len(docs)
                                        THEN /\ current_page' = SwitchTarget(Len(docs), Len(pageDoc'))
                                             /\ selector_map' = EmptyMap
                                             /\ last_inspected_url' = last_inspected_url
                                        ELSE /\ current_page' = page
                                             /\ ResetIndexIfNavigated(Url(pageDoc', page))
    /\ Forget
    /\ UNCHANGED <<inflight, scan>>

click_element == ClickElement(MaxPages)

\* The texts a caller types.
Texts == {"secret", "other"}

\* A text input_text says: its wording, the index and the text it shows.
NoText == ""
Says(form, index, text) == [form |-> form, index |-> index, text |-> text]

\* Variant: the confirmation shows the text whatever the flag is.
InputConfirmationEchoes(index, text, has_sensitive_data) ==
    Says("Input {text} into index {index}", index, text)
\* f"Input sensitive data into index {index}" if has_sensitive_data
\* else f"Input {text} into index {index}"
InputConfirmation(index, text, has_sensitive_data) ==
    IF has_sensitive_data THEN Says("Input sensitive data into index {index}", index, NoText)
    ELSE Says("Input {text} into index {index}", index, text)

\* What input_text says, returned or raised, when called in the current state
\* with a browser and a page:
\* f"Element index {index} does not exist - call inspect_page() first",
\* f"Index {index}: element not found anymore. Re-run inspect_page().", or the
\* confirmation.
InputTextSays(index, text, has_sensitive_data) ==
    IF Resolve(index) = NoSelector
    THEN Says("Element index {index} does not exist - call inspect_page() first", index, NoText)
    ELSE IF Matches(DocsAfterRequire[PageAfterRequire], Resolve(index)) = << >>
    THEN Says("Index {index}: element not found anymore. Re-run inspect_page().", index, NoText)
    ELSE InputConfirmation(index, text, has_sensitive_data)

input_text ==
    /\ \/ NoSession("input_text")
       \/ NewPageFails("input_text")
       \/ \E index \in Indices, text \in Texts, has_sensitive_data \in BOOLEAN :
             LET docs == DocsAfterRequire
                 page == PageAfterRequire
                 R(outcome, raised) == [Result("input_text", outcome, raised) EXCEPT
                                           !.index = index, !.expected = Expected(index),
                                           !.sensitive = has_sensitive_data,
                                           !.said = InputTextSays(index, text, has_sensitive_data)]
             IN  /\ RequirePage
                 /\ browser' = browser
                 /\ current_page' = page
                 /\ IF Resolve(index) = NoSelector
                    THEN /\ pageDoc' = docs
                         /\ UNCHANGED <<selector_map, last_inspected_url>>
                         /\ last' = R("IndexNotFound", TRUE)
                    ELSE LET el_list == Matches(docs[page], Resolve(index))
                         IN  IF el_list = << >>
                             THEN /\ pageDoc' = docs
                                  /\ selector_map' = Pop(selector_map, index)
                                  /\ last_inspected_url' = last_inspected_url
                                  /\ last' = [R("StaleElement", FALSE) EXCEPT !.stale = TRUE]
                             ELSE \E eff \in InPageEffects :
                                     /\ pageDoc' = ApplyEffect(docs, page, eff)
                                     /\ ResetIndexIfNavigated(Url(pageDoc', page))
                                     /\ last' = [R("Ok", FALSE) EXCEPT !.acted = el_list[1].id]
    /\ Forget
    /\ UNCHANGED <<inflight, scan>>

\* ------------------------------------------------------------------ tabs
\* Variant: the mapping is cleared by URL comparison.
TabClearIfUrlChanged(url) ==
    selector_map' = IF last_inspected_url # NoUrl /\ url # last_inspected_url
                    THEN EmptyMap ELSE selector_map

\* _selector_map.clear() after current_page was set to a page at url
TabClear(url) == selector_map' = EmptyMap

TabOrdinals == (0 - (MaxPages + 1))..MaxPages

\* Variant: a negative ordinal is not counted from the end.
AdjustedNoWrap(page_id, n) == page_id
\* if page_id < 0: page_id = len(pages) + page_id
Adjusted(page_id, n) == IF page_id < 0 THEN n + page_id ELSE page_id

\* return f"Invalid tab index {page_id}. There are {len(pages)} tabs."
\* with page_id the adjusted ordinal: the two numbers the text names.
InvalidTabText(page_id, n) == << page_id, n >>

switch_tab ==
    /\ \/ NoSession("switch_tab")
       \/ \E page_id \in TabOrdinals :
             LET n == Len(pageDoc)
                 k == Adjusted(page_id, n)
                 R(outcome) == [Result("switch_tab", outcome, FALSE) EXCEPT !.ord = page_id]
             IN  /\ RequireBrowser
                 /\ UNCHANGED <<browser, pageDoc, last_inspected_url>>
                 /\ IF n = 0
                    THEN /\ UNCHANGED <<current_page, selector_map>>
                         /\ last' = R("NoTabs")
                    ELSE IF k < 0 \/ k >= n
                    THEN /\ UNCHANGED <<current_page, selector_map>>
                         /\ last' = [R("NotFound") EXCEPT !.said = InvalidTabText(k, n)]
                    ELSE /\ current_page' = k + 1
                         /\ TabClear(Url(pageDoc, k + 1))
                         /\ last' = R("Ok")
    /\ Forget
    /\ UNCHANGED <<inflight, scan>>

open_tab ==
    /\ \/ NoSession("open_tab")
       \/ \E url \in Urls :
             LET R(outcome, raised) == [Result("open_tab", outcome, raised) EXCEPT !.url = url]
             IN  /\ RequireBrowser
                 /\ UNCHANGED <<browser, last_inspected_url>>
                 /\ \/ \* b.new_page(url) raises
                       /\ UNCHANGED <<pageDoc, current_page, selector_map>>
                       /\ last' = R("EngineError", TRUE)
                    \/ /\ Len(pageDoc) < MaxPages
                       /\ pageDoc' = Append(pageDoc, InitialDoc(url))
                       /\ current_page' = Len(pageDoc) + 1
                       /\ TabClear(url)
                       /\ last' = R("Ok", FALSE)
    /\ Forget
    /\ UNCHANGED <<inflight, scan>>

\* ------------------------------------------------------------------ page tools
\* A tool that evaluates a script on the active page and touches no global:
\* scroll_down, scroll_up, scroll_to_text, validate_page.
Passive(tool, outcomes) ==
    \/ NoSession(tool)
    \/ NewPageFails(tool)
    \/ /\ RequirePage
       /\ pageDoc' = DocsAfterRequire
       /\ current_page' = PageAfterRequire
       /\ UNCHANGED <<browser, selector_map, last_inspected_url>>
       /\ \E outcome \in outcomes :
             last' = Result(tool, outcome, FALSE)
       /\ Forget
       /\ UNCHANGED <<inflight, scan>>

scroll_down == Passive("scroll_down", {"Ok"})
scroll_up == Passive("scroll_up", {"Ok"})
scroll_to_text == Passive("scroll_to_text", {"Ok", "NotFound"})
validate_page == Passive("validate_page", {"Ok", "Warning"})

\* page.press(keys): the page reacts; the tool itself touches no global.
send_keys ==
    /\ \/ NoSession("send_keys")
       \/ NewPageFails("send_keys")
       \/ /\ RequirePage
          /\ current_page' = PageAfterRequire
          /\ UNCHANGED <<browser, selector_map, last_inspected_url>>
          /\ \E eff \in InPageEffects :
                /\ pageDoc' = ApplyEffect(DocsAfterRequire, PageAfterRequire, eff)
                /\ last' = Result("send_keys", "Ok", FALSE)
    /\ Forget
    /\ UNCHANGED <<inflight, scan>>

\* page.evaluate(script): a script that throws is reported as text; one that
\* runs may change the DOM or navigate.
execute_javascript ==
    /\ \/ NoSession("execute_javascript")
       \/ NewPageFails("execute_javascript")
       \/ /\ RequirePage
          /\ current_page' = PageAfterRequire
          /\ UNCHANGED <<browser, selector_map, last_inspected_url>>
          /\ \/ /\ pageDoc' = DocsAfterRequire
                /\ last' = Result("execute_javascript", "ScriptError", FALSE)
             \/ \E eff \in InPageEffects :
                   /\ pageDoc' = ApplyEffect(DocsAfterRequire, PageAfterRequire, eff)
                   /\ last' = Result("execute_javascript", "Ok", FALSE)
    /\ Forget
    /\ UNCHANGED <<inflight, scan>>

done ==
    /\ /\ last' = Result("done", "Ok", FALSE)
       /\ UNCHANGED <<browser, pageDoc, current_page, selector_map, last_inspected_url>>
    /\ Forget
    /\ UNCHANGED <<inflight, scan>>

\* ------------------------------------------------------------------ dropdowns
\* The texts a caller asks for: the text of an option, a text of no option,
\* the text of an option within blanks, and the value of an option.
Wants == {"Blue", "Green", " Blue ", "b"}
\* String.prototype.trim on the texts of the model.
Trim(t) == IF t = " Blue " THEN "Blue" ELSE t

\* const el = document.querySelector(sel);
\* if (!el || el.tagName.toLowerCase() !== 'select') return null;
QuerySelect(d, sel) ==
    LET els == Matches(d, sel)
    IN  IF els # << >> /\ els[1].tag = "select" THEN << els[1] >> ELSE << >>

\* Variant: an option is also found by its value.
FindOptionByValue(options, want) ==
    SelectSeq(options, LAMBDA o : Trim(o.text) = Trim(want) \/ o.value = want)
\* Array.from(el.options).find(o => (o.text || '').trim() === want.trim())
FindOption(options, want) == SelectSeq(options, LAMBDA o : Trim(o.text) = Trim(want))

get_dropdown_options ==
    /\ \/ NoSession("get_dropdown_options")
       \/ NewPageFails("get_dropdown_options")
       \/ \E index \in Indices :
             LET docs == DocsAfterRequire
                 page == PageAfterRequire
                 R(outcome) == [Result("get_dropdown_options", outcome, FALSE) EXCEPT
                                   !.index = index, !.expected = Expected(index)]
             IN  /\ RequirePage
                 /\ pageDoc' = docs
                 /\ current_page' = page
                 /\ UNCHANGED <<browser, selector_map, last_inspected_url>>
                 /\ IF Resolve(index) = NoSelector
                    THEN last' = R("IndexNotFound")
                    ELSE LET el == QuerySelect(docs[page], Resolve(index))
                         IN  IF el = << >> \/ el[1].options = << >>
                             THEN last' = [R("NotApplicable") EXCEPT
                                              !.stale = (Matches(docs[page], Resolve(index)) = << >>)]
                             ELSE last' = [R("Ok") EXCEPT !.acted = el[1].id]
    /\ Forget
    /\ UNCHANGED <<inflight, scan>>

select_dropdown_option ==
    /\ \/ NoSession("select_dropdown_option")
       \/ NewPageFails("select_dropdown_option")
       \/ \E index \in Indices, text \in Wants :
             LET docs == DocsAfterRequire
                 page == PageAfterRequire
                 R(outcome) == [Result("select_dropdown_option", outcome, FALSE) EXCEPT
                                   !.index = index, !.expected = Expected(index), !.text = text]
             IN  /\ RequirePage
                 /\ current_page' = page
                 /\ UNCHANGED <<browser, selector_map, last_inspected_url>>
                 /\ IF Resolve(index) = NoSelector
                    THEN /\ pageDoc' = docs
                         /\ last' = R("IndexNotFound")
                    ELSE LET sel == Resolve(index)
                             el == QuerySelect(docs[page], sel)
                             match == IF el = << >> THEN << >> ELSE FindOption(el[1].options, text)
                         IN  IF match = << >>
                             THEN /\ pageDoc' = docs
                                  /\ last' = [R("NotFound") EXCEPT
                                                 !.stale = (Matches(docs[page], sel) = << >>)]
                             ELSE \* the page may change between the lookup and the re-query
                                  \E change \in {"none", "mutate"} :
                                     LET now == ApplyEffect(docs, page, Eff(change, NoUrl, 0))
                                         elements == Matches(now[page], sel)
                                     IN  IF elements = << >>
                                         THEN /\ pageDoc' = now
                                              /\ last' = [R("StaleElement") EXCEPT !.stale = TRUE]
                                         ELSE \E eff \in InPageEffects :
                                                 /\ pageDoc' = ApplyEffect(now, page, eff)
                                                 /\ last' = [R("Ok") EXCEPT
                                                                !.acted = elements[1].id,
                                                                !.url = match[1].value]
    /\ Forget
    /\ UNCHANGED <<inflight, scan>>

Next ==
    \/ initialize_browser
    \/ close_browser
    \/ search_google
    \/ go_to_url
    \/ go_back
    \/ wait
    \/ inspect_page
    \/ click_element
    \/ input_text
    \/ switch_tab
    \/ open_tab
    \/ scroll_down
    \/ scroll_up
    \/ send_keys
    \/ scroll_to_text
    \/ get_dropdown_options
    \/ select_dropdown_option
    \/ validate_page
    \/ execute_javascript
    \/ done

Spec == Init /\ [][Next]_vars

\* The same program on an engine with room for one page more when a click
\* opens pages, so that a click on the only open page can open two.
click_element_popups == ClickElement(MaxPages + 1)
NextPopups == Next \/ click_element_popups
SpecPopups == Init /\ [][NextPopups]_vars

\* ------------------------------------------------------------------ a snapshot cut short
\* inspect_page whose page.evaluate(js) returned the list and whose
\* page.get_url() raises: the mapping was rebuilt at lines 352-355, the
\* assignment of line 356 never happens and the exception leaves the tool.
inspect_page_get_url_raises ==
    /\ RequirePage
    /\ browser' = browser
    /\ pageDoc' = DocsAfterRequire
    /\ current_page' = PageAfterRequire
    /\ LET elements == Scan(DocsAfterRequire[PageAfterRequire])
       IN  /\ selector_map' = BuildMap(elements)
           /\ denoted' = [i \in DOMAIN BuildMap(elements) |-> elements[i - FirstIndex + 1].id]
    /\ last' = Result("inspect_page", "EngineError", TRUE)
    /\ UNCHANGED <<last_inspected_url, inflight, scan>>

NextUrlFails == Next \/ inspect_page_get_url_raises
SpecUrlFails == Init /\ [][NextUrlFails]_vars

\* ------------------------------------------------------------------ overlapping calls
\* The tools are coroutines on one event loop and nothing in the server holds
\* a lock: a call suspended at an await leaves the loop to the other calls.
\* Here one inspect_page call is followed through its two long awaits,
\* page.evaluate(js) and page.get_url(), while the calls the snapshot can
\* overlap with (a navigation, switch_tab, open_tab, click_element, another
\* inspect_page) run to completion in between.

\* page = await _require_page(), then the call is suspended in page.evaluate.
inspect_page_begins ==
    /\ inflight = Idle
    /\ RequirePage
    /\ browser' = browser
    /\ pageDoc' = DocsAfterRequire
    /\ current_page' = PageAfterRequire
    /\ inflight' = [pc |-> "evaluate", page |-> PageAfterRequire, doc |-> NoDoc]
    /\ UNCHANGED <<selector_map, last_inspected_url, denoted, last, scan>>

\* page.evaluate returns the list scanned on the call's own page; the mapping
\* is cleared and rebuilt from it, and the call is suspended in page.get_url.
inspect_page_evaluated ==
    /\ inflight.pc = "evaluate"
    /\ LET elements == Scan(pageDoc[inflight.page])
       IN  /\ selector_map' = BuildMap(elements)
           /\ denoted' = [i \in DOMAIN BuildMap(elements) |-> elements[i - FirstIndex + 1].id]
    /\ inflight' = [inflight EXCEPT !.pc = "get_url", !.doc = pageDoc[inflight.page]]
    /\ UNCHANGED <<browser, pageDoc, current_page, last_inspected_url, last, scan>>

\* page.get_url() returns the URL the call's own page is at by now, and the
\* call returns the listing of its scan.
inspect_page_returns ==
    /\ inflight.pc = "get_url"
    /\ last_inspected_url' = Url(pageDoc, inflight.page)
    /\ LET elements == Scan(inflight.doc)
       IN  last' = [Result("inspect_page", IF elements = << >> THEN "NoElements" ELSE "Ok", FALSE)
                      EXCEPT !.listing = Listing(elements), !.text = "list",
                             !.ord = inflight.page, !.url = DocUrl(inflight.doc)]
    /\ inflight' = Idle
    /\ UNCHANGED <<browser, pageDoc, current_page, selector_map, denoted, scan>>

\* A session is started while no snapshot is suspended, so that the page a
\* suspended snapshot holds is never closed under it.
initialize_browser_idle == inflight = Idle /\ initialize_browser

NextConcurrent ==
    \/ initialize_browser_idle
    \/ go_to_url
    \/ switch_tab
    \/ open_tab
    \/ click_element
    \/ inspect_page
    \/ inspect_page_begins
    \/ inspect_page_evaluated
    \/ inspect_page_returns

SpecConcurrent == Init /\ [][NextConcurrent]_vars

\* ------------------------------------------------------------------ the snapshot script
\* The script of inspect_page on a DOM tree.  A tree is the sequence of its
\* elements in document order; an element has its parent (0 for the root),
\* its tag, its id attribute ("" for none) and whether it is rendered.  The
\* elements "a" stand for what the script's querySelectorAll selects.
\* MaxNodes: the size up to which every tree is drawn.  MaxDepth: the length
\* up to which the two chains of a deep tree are drawn; beyond MaxLevels the
\* walk of cssPath is cut.
MaxNodes == 4
MaxDepth == 9
DomTags == {"div", "a"}
DomIds == {"", "x"}

RECURSIVE AncestorsOrSelf(_, _)
AncestorsOrSelf(parent, n) ==
    IF n = 0 THEN {} ELSE {n} \cup AncestorsOrSelf(parent, parent[n])

\* The parent functions of the trees of n elements numbered in document order.
Shapes(n) ==
    {parent \in [1..n -> 0..(n - 1)] :
        /\ parent[1] = 0
        /\ \A i \in 2..n : parent[i] \in AncestorsOrSelf(parent, i - 1)}

Root == [parent |-> 0, tag |-> "html", id |-> "", vis |-> TRUE]

\* Every tree of up to max elements under an html root.
SmallTrees(max) ==
    UNION {{[i \in 1..n |-> IF i = 1 THEN Root
                            ELSE [parent |-> parent[i], tag |-> look[i].tag,
                                  id |-> look[i].id, vis |-> look[i].vis]] :
               parent \in Shapes(n),
               look \in [2..n -> [tag : DomTags, id : DomIds, vis : BOOLEAN]]} :
           n \in 2..max}

\* Two chains of d elements each under the root, ending in a link; the top of
\* each chain may carry an id.
Comb(d, id1, id2) ==
    [i \in 1..(2 * d + 1) |->
        IF i = 1 THEN Root
        ELSE [parent |-> IF i = 2 \/ i = d + 2 THEN 1 ELSE i - 1,
              tag |-> IF i = d + 1 \/ i = 2 * d + 1 THEN "a" ELSE "div",
              id |-> IF i = 2 /\ d > 1 THEN id1 ELSE IF i = d + 2 /\ d > 1 THEN id2 ELSE "",
              vis |-> TRUE]]
DeepTrees(max) == {Comb(d, id1, id2) : d \in 2..max, id1 \in DomIds, id2 \in DomIds}

\* The trees the script is run on.
Trees(nodes, depth) == SmallTrees(nodes) \cup DeepTrees(depth)

\* isVisible(el)
isVisible(t, el) == t[el].vis

\* nth: one more than the number of previous element siblings of the same
\* node name.
NthOfType(t, el) ==
    1 + Cardinality({sib \in 1..(el - 1) :
                        t[sib].parent = t[el].parent /\ t[sib].tag = t[el].tag})

\* A level of a path: tag#id (nth is 0) or tag:nth-of-type(nth) (id is "").
IdLevel(t, el) == [tag |-> t[el].tag, id |-> t[el].id, nth |-> 0]
NthLevel(t, el) == [tag |-> t[el].tag, id |-> "", nth |-> NthOfType(t, el)]

\* while (el && ... && path.length < 8)
MaxLevels == 8
\* The loop of cssPath: el is the element the walk is at, path what it has
\* collected below it.
RECURSIVE Walk(_, _, _)
Walk(t, el, path) ==
    IF el = 0 \/ Len(path) >= MaxLevels THEN path
    ELSE IF t[el].id # "" THEN <<IdLevel(t, el)>> \o path
    ELSE Walk(t, t[el].parent, <<NthLevel(t, el)>> \o path)
cssPath(t, el) == Walk(t, el, << >>)

\* The loop of cssPath ended because the path was full, with elements left
\* above it.
RECURSIVE WalkCut(_, _, _)
WalkCut(t, el, levels) ==
    IF el = 0 THEN FALSE
    ELSE IF levels >= MaxLevels THEN TRUE
    ELSE IF t[el].id # "" THEN FALSE
    ELSE WalkCut(t, t[el].parent, levels + 1)

\* document.querySelectorAll(...) of the script, in document order.
Interactive(t) == {el \in 1..Len(t) : t[el].tag = "a"}

\* for (const el of nodes): skip what is not visible, skip a selector seen before.
RECURSIVE ScanTree(_, _, _, _)
ScanTree(t, el, uniq, items) ==
    IF el > Len(t) THEN items
    ELSE IF el \notin Interactive(t) \/ ~isVisible(t, el) THEN ScanTree(t, el + 1, uniq, items)
    ELSE LET selector == cssPath(t, el)
         IN  IF selector = << >> \/ selector \in uniq
             THEN ScanTree(t, el + 1, uniq, items)
             ELSE ScanTree(t, el + 1, uniq \cup {selector},
                           Append(items, [selector |-> selector, node |-> el]))

\* CSS matching: el matches the levels 1..k of the selector, joined by the
\* child combinator.
RECURSIVE MatchesPath(_, _, _, _)
MatchesPath(t, el, selector, k) ==
    /\ el # 0
    /\ t[el].tag = selector[k].tag
    /\ IF selector[k].nth = 0 THEN t[el].id = selector[k].id
       ELSE NthOfType(t, el) = selector[k].nth
    /\ k > 1 => MatchesPath(t, t[el].parent, selector, k - 1)
\* page.get_elements_by_css_selector(selector)
QuerySelectorAll(t, selector) ==
    {el \in 1..Len(t) : MatchesPath(t, el, selector, Len(selector))}

Program ==
    /\ inflight = Idle
    /\ browser = FALSE
    /\ pageDoc = << >>
    /\ current_page = NoPage
    /\ selector_map = EmptyMap
    /\ last_inspected_url = NoUrl
    /\ denoted = [i \in {} |-> NoElement]
    /\ last = Result("none", "Ok", FALSE)

InitScan ==
    /\ Program
    /\ scan \in {[NoScan EXCEPT !.dom = t] : t \in Trees(MaxNodes, MaxDepth)}

\* result = await page.evaluate(js)
evaluate_js ==
    /\ scan.dom # << >>
    /\ ~scan.done
    /\ scan' = [scan EXCEPT !.done = TRUE, !.items = ScanTree(scan.dom, 1, {}, << >>)]
    /\ UNCHANGED <<browser, pageDoc, current_page, selector_map, last_inspected_url, denoted,
                   last, inflight>>

\* A later tool resolves an index: the selector of a listed entry is queried
\* on the same tree.
requery ==
    /\ scan.done
    /\ \E j \in 1..Len(scan.items) :
          scan' = [scan EXCEPT !.picked = j,
                               !.hits = QuerySelectorAll(scan.dom, scan.items[j].selector)]
    /\ UNCHANGED <<browser, pageDoc, current_page, selector_map, last_inspected_url, denoted,
                   last, inflight>>

NextScan == evaluate_js \/ requery
SpecScan == InitScan /\ [][NextScan]_vars

\* ------------------------------------------------------------------ claims
IndexTools == {"click_element", "input_text", "get_dropdown_options", "select_dropdown_option"}
NavTools == {"go_to_url", "search_google", "go_back"}
TabTools == {"open_tab", "switch_tab"}
MapIsEmpty == DOMAIN selector_map = {}
ActiveUrl == IF current_page = NoPage THEN NoUrl ELSE Url(pageDoc, current_page)

\* C1: an index-taking tool never acts on an element other than the one its
\* index denoted when the snapshot was taken.
C1_NeverWrongElement ==
    (last.tool \in IndexTools /\ last.acted # NoElement) => last.acted = last.expected

\* The last call was one that empties the mapping as an invalidation.
InvalidatingCall ==
    /\ last.outcome = "Ok"
    /\ \/ last.tool \in NavTools \cup TabTools
       \/ last.tool \in {"click_element", "input_text"} /\ MapIsEmpty

\* C2 as stated: after an invalidating operation the mapping is empty and
\* lastSnapshotUrl is absent.
C2_ClearedTogether ==
    InvalidatingCall => (MapIsEmpty /\ last_inspected_url = NoUrl)

\* C2 as amended: an invalidating operation empties the mapping; navigation, tab
\* operations and a click that opens a new tab leave lastSnapshotUrl as it was,
\* the URL-changed check of click and fill sets it to the page's new URL, and
\* only initialize_browser and close_browser make it absent.
C2_MapClearedUrlKept ==
    [][/\ InvalidatingCall' =>
            /\ MapIsEmpty'
            /\ last_inspected_url' =
                 IF last'.tool \in {"click_element", "input_text"} /\ last'.text # "new tab"
                 THEN ActiveUrl' ELSE last_inspected_url
       /\ (last_inspected_url # NoUrl /\ last_inspected_url' = NoUrl) =>
            last'.tool \in {"initialize_browser", "close_browser"}]_vars

\* C2 witness: a click whose URL-changed check emptied the mapping, the new URL
\* recorded.
C2_Witness ==
    /\ last.tool = "click_element" /\ last.outcome = "Ok" /\ last.text # "new tab"
    /\ MapIsEmpty
    /\ last_inspected_url = ActiveUrl

\* C3: a navigation (go_to_url, search_google, go_back) that leaves the page at
\* a URL other than the one of the last snapshot leaves the mapping empty, and
\* an empty mapping stays empty, every index-taking call failing without acting,
\* until inspect_page runs.
C3_NavigationEmptiesMap ==
    /\ []((last.tool \in NavTools /\ last.outcome = "Ok"
             /\ last_inspected_url # NoUrl /\ ActiveUrl # last_inspected_url) => MapIsEmpty)
    /\ [][(MapIsEmpty /\ last'.tool # "inspect_page") =>
             /\ MapIsEmpty'
             /\ last'.tool \in IndexTools =>
                   /\ last'.acted = NoElement
                   /\ last'.outcome \in {"IndexNotFound", "PreconditionError", "EngineError"}
                   /\ (browser /\ current_page # NoPage) => last'.outcome = "IndexNotFound"]_vars

\* C3 witness: after a snapshot the page is at another URL and a click finds
\* no index.
C3_Witness ==
    /\ last.tool = "click_element" /\ last.outcome = "IndexNotFound" /\ last.index = 1
    /\ MapIsEmpty
    /\ last_inspected_url # NoUrl /\ ActiveUrl # NoUrl /\ ActiveUrl # last_inspected_url

\* C4 as stated: go_to_url to the URL recorded by the last snapshot leaves the
\* mapping as it was.
C4_SameUrlKeepsMap ==
    [][(last'.tool = "go_to_url" /\ last'.outcome = "Ok" /\ last'.url = last_inspected_url)
          => selector_map' = selector_map]_vars

\* C4 as amended: go_to_url to the URL recorded by the last snapshot empties the
\* mapping like any other navigation, and leaves lastSnapshotUrl as it was.
C4_SameUrlClearsMap ==
    [][(last'.tool = "go_to_url" /\ last'.outcome = "Ok" /\ last'.url = last_inspected_url)
          => (MapIsEmpty' /\ last_inspected_url' = last_inspected_url)]_vars

\* C4 witness: go_to_url went to the URL the last snapshot recorded.
C4_Witness ==
    /\ last.tool = "go_to_url" /\ last.outcome = "Ok"
    /\ last.url = last_inspected_url /\ ActiveUrl = last_inspected_url
    /\ Scan(pageDoc[current_page]) # << >>

\* C5: no action that may have changed the page returns with a non-empty
\* mapping while the active page's URL differs from lastSnapshotUrl.
C5_UrlComparedAfterAction ==
    (/\ last.tool \in {"click_element", "input_text", "send_keys", "select_dropdown_option",
                       "execute_javascript", "go_back", "go_to_url"}
     /\ ~last.raised
     /\ last_inspected_url # NoUrl /\ ActiveUrl # NoUrl /\ ActiveUrl # last_inspected_url)
       => MapIsEmpty

C7_AbsentIndexChangesNothing ==
    [][(browser /\ last'.tool \in IndexTools /\ last'.outcome # "EngineError"
          /\ last'.index \notin DOMAIN selector_map) =>
          /\ last'.outcome = "IndexNotFound"
          /\ last'.acted = NoElement
          /\ UNCHANGED <<selector_map, last_inspected_url, current_page>>]_vars

\* C7 as amended: the same, whenever there is an active page.
C7_AbsentIndexWithActivePage ==
    [][(browser /\ current_page # NoPage
          /\ last'.tool \in IndexTools /\ last'.index \notin DOMAIN selector_map) =>
          /\ last'.outcome = "IndexNotFound"
          /\ last'.acted = NoElement
          /\ UNCHANGED <<selector_map, last_inspected_url, current_page>>]_vars

\* C7 witness: a click with an index that was evicted, other indices still in
\* the mapping.
C7_Witness ==
    /\ last.tool = "click_element" /\ last.outcome = "IndexNotFound"
    /\ last.index = 2 /\ 1 \in DOMAIN selector_map

\* C8: IndexNotFound, StaleElement, ExtractionFailure and NotFound are returned
\* as text, never raised.
C8_SoftOutcomesAreText ==
    last.outcome \in {"IndexNotFound", "StaleElement", "ExtractionFailure", "NotFound"}
        => ~last.raised

\* C9: an index-taking call whose index is in the mapping and whose selector
\* matches no live element reports the stale outcome and evicts the index.
C9_StaleIndexEvicted ==
    (last.tool \in IndexTools /\ last.stale) =>
        (last.outcome = "StaleElement" /\ last.index \notin DOMAIN selector_map)

\* C10: after a successful open_tab or switch_tab the active page is the new,
\* respectively the selected, page and the mapping is empty.
C10_TabChangeClearsMap ==
    (last.tool \in TabTools /\ last.outcome = "Ok") =>
        /\ MapIsEmpty
        /\ last.tool = "open_tab" =>
              (current_page = Len(pageDoc) /\ ActiveUrl = last.url)
        /\ last.tool = "switch_tab" =>
              current_page = (IF last.ord >= 0 THEN last.ord ELSE Len(pageDoc) + last.ord) + 1

\* C10 witness: switch_tab selected a page whose URL is the one the last
\* snapshot recorded.
C10_Witness ==
    /\ last.tool = "switch_tab" /\ last.outcome = "Ok"
    /\ last_inspected_url # NoUrl /\ ActiveUrl = last_inspected_url
    /\ Scan(pageDoc[current_page]) # << >>

\* C11: with n open pages, switch_tab(k) makes page k (0-based) active for
\* 0 <= k < n and page n+k for -n <= k < 0; for any other k, and when n = 0,
\* it returns an error text (for n > 0 one that names the number of pages)
\* without raising, and leaves the active page, the mapping and lastSnapshotUrl
\* as they were.
C11_SwitchTabOrdinals ==
    [][(browser /\ last'.tool = "switch_tab") =>
          LET n == Len(pageDoc)
              k == last'.ord
          IN  IF 0 <= k /\ k < n
              THEN last'.outcome = "Ok" /\ current_page' = k + 1
              ELSE IF 0 - n <= k /\ k < 0
              THEN last'.outcome = "Ok" /\ current_page' = n + k + 1
              ELSE /\ ~last'.raised
                   /\ last'.outcome = (IF n = 0 THEN "NoTabs" ELSE "NotFound")
                   /\ n > 0 => (Len(last'.said) = 2 /\ last'.said[2] = n)
                   /\ UNCHANGED <<current_page, selector_map, last_inspected_url>>]_vars

\* C11 witness: with two pages open, switch_tab(-1)
\* made the last page active.
C11_Witness ==
    /\ last.tool = "switch_tab" /\ last.outcome = "Ok" /\ last.ord = 0 - 1
    /\ Len(pageDoc) = 2 /\ current_page = 2

\* C12: when a click makes pages exist that did not exist before it, the active
\* page becomes one of the new pages and the mapping is empty when the click
\* returns; an index-taking call right after it fails with IndexNotFound, and a
\* snapshot right after it builds the mapping from the new active page and
\* records that page's URL.
C12_NewPageBecomesActive ==
    [][/\ (last'.tool = "click_element" /\ Len(pageDoc') > Len(DocsAfterRequire)) =>
            /\ current_page' \in (Len(DocsAfterRequire) + 1)..Len(pageDoc')
            /\ MapIsEmpty'
       /\ (last.tool = "click_element" /\ last.text = "new tab") =>
            /\ last'.tool \in IndexTools =>
                  (last'.outcome = "IndexNotFound" /\ last'.acted = NoElement)
            /\ (last'.tool = "inspect_page" /\ last'.outcome \in {"Ok", "NoElements"}) =>
                  /\ current_page' = current_page
                  /\ selector_map' = BuildMap(Scan(pageDoc[current_page]))
                  /\ last_inspected_url' = Url(pageDoc, current_page)]_vars

\* C12 witness: a click on a page at A opened a page at G and a snapshot of it
\* followed.
C12_Witness ==
    /\ last.tool = "inspect_page" /\ last.outcome = "Ok"
    /\ Len(pageDoc) = 2 /\ current_page = 2
    /\ pageDoc[1] = "A1" /\ pageDoc[2] = "G1"
    /\ DOMAIN selector_map = {1, 2}

\* C13: when a click makes two or more new pages appear, the last of them in
\* the engine's page list becomes the active page.
C13_LastNewPageActive ==
    [][(last'.tool = "click_element" /\ Len(pageDoc') >= Len(DocsAfterRequire) + 2) =>
          current_page' = Len(pageDoc')]_vars

StartsOfLast == SelectSeq(last.events, LAMBDA e : e[1] = "start")

\* C15: initialize_browser starts its configurations in the listed order, stops
\* the browser of each attempt that failed or timed out before it starts the
\* next, adopts the first configuration that starts and starts none after it,
\* and raises StartupFailure, carrying the reason of the last attempt, exactly
\* when every configuration failed; after StartupFailure there is no browser
\* and no active page.
C15_ConfigsInOrder ==
    last.tool = "initialize_browser" =>
        /\ Len(StartsOfLast) >= 1
        /\ \A j \in 1..Len(StartsOfLast) : StartsOfLast[j][2] = j
        /\ \A j \in 1..Len(last.events) :
              (last.events[j][1] = "start" /\ last.events[j][2] # last.ord) =>
                  (j < Len(last.events) /\ last.events[j + 1] = <<"stop", last.events[j][2]>>)
        /\ last.ord # 0 =>
              /\ last.events[Len(last.events)] = <<"start", last.ord>>
              /\ browser
        /\ (last.outcome = "StartupFailure") <=> (last.ord = 0)
        /\ last.outcome = "StartupFailure" =>
              /\ last.raised
              /\ Len(StartsOfLast) = NumConfigs
              /\ Len(last.said) = 2 /\ last.said[1] = NumConfigs
              /\ last.said[2] \in AttemptOutcomes \ {"started"}
              /\ ~browser /\ current_page = NoPage

\* C15 witness: the first two configurations failed, each was stopped,
\* and the third was adopted.
C15_Witness ==
    /\ last.tool = "initialize_browser" /\ last.outcome = "Ok" /\ last.ord = 3
    /\ last.events = << <<"start", 1>>, <<"stop", 1>>, <<"start", 2>>, <<"stop", 2>>,
                        <<"start", 3>> >>
    /\ browser /\ current_page = 1

\* C16: when initialize_browser has run, whether it returned or raised, the
\* mapping is empty and lastSnapshotUrl is absent, and when it returned the
\* active page is the one fresh page of the new browser.
C16_NothingSurvives ==
    last.tool = "initialize_browser" =>
        /\ MapIsEmpty
        /\ last_inspected_url = NoUrl
        /\ last.outcome = "Ok" => (browser /\ current_page = 1 /\ pageDoc = << "blank" >>)

\* C17: once close_browser has run there is no browser and no active page, the
\* mapping is empty and lastSnapshotUrl is absent.
C17_EverythingReleased ==
    last.tool = "close_browser" =>
        /\ ~browser
        /\ current_page = NoPage
        /\ MapIsEmpty
        /\ last_inspected_url = NoUrl

\* The tools that call _require_page, and those that call _require_browser.
PageTools ==
    NavTools \cup IndexTools \cup
        {"inspect_page", "scroll_down", "scroll_up", "send_keys", "scroll_to_text",
         "validate_page", "execute_javascript"}
SessionTools == PageTools \cup TabTools

\* C18 as stated, for engine calls that succeed: while there is no browser or
\* no active page, every tool that needs the page or the browser raises
\* PreconditionError and leaves the active page, the mapping and lastSnapshotUrl
\* as they were.
C18_NoSessionOrPageFails ==
    [][((~browser \/ current_page = NoPage) /\ last'.tool \in SessionTools
          /\ last'.outcome # "EngineError") =>
          /\ last'.outcome = "PreconditionError" /\ last'.raised
          /\ UNCHANGED <<current_page, selector_map, last_inspected_url>>]_vars

\* C18 as amended: while there is no browser, every tool that needs the page or
\* the browser raises PreconditionError and changes nothing, and only an
\* initialize_browser that starts a browser ends this; with a browser and no
\* active page the tools that need the page do not raise PreconditionError but
\* open a page and make it the active one.
C18_NoBrowserFails ==
    [][/\ (~browser /\ last'.tool \in SessionTools) =>
            /\ last'.outcome = "PreconditionError" /\ last'.raised
            /\ UNCHANGED <<browser, pageDoc, current_page, selector_map, last_inspected_url>>
       /\ (~browser /\ browser') => (last'.tool = "initialize_browser" /\ last'.ord # 0)
       /\ (browser /\ current_page = NoPage /\ last'.tool \in PageTools) =>
            /\ last'.outcome # "PreconditionError"
            /\ last'.outcome = "EngineError" \/ current_page' = Len(pageDoc) + 1]_vars

\* C18 witness: go_to_url was called after an initialize_browser that exhausted
\* its configurations had ended an earlier session.
C18_Witness ==
    /\ last.tool = "go_to_url" /\ last.outcome = "PreconditionError" /\ last.raised
    /\ ~browser /\ current_page = NoPage
    /\ last_inspected_url # NoUrl

\* C19: what input_text with has_sensitive_data says (confirmation,
\* stale-element text or the message of the absent-index exception) is what it
\* would have said for any other text with the same index in the same state,
\* and no text of the caller occurs in it.
C19_SensitiveTextHidden ==
    [][(/\ last'.tool = "input_text" /\ last'.sensitive
        /\ last'.outcome \in {"Ok", "StaleElement", "IndexNotFound"}) =>
          /\ \A t \in Texts : InputTextSays(last'.index, t, TRUE) = last'.said
          /\ last'.said.text \notin Texts]_vars

\* C19 witness: input_text typed a text with has_sensitive_data into the
\* element of index 1 and confirmed it.
C19_Witness ==
    /\ last.tool = "input_text" /\ last.outcome = "Ok"
    /\ last.sensitive
    /\ last.index = 1 /\ last.acted # NoElement

\* C20: inspect_page reports the extraction failure, as text, exactly when the
\* evaluation result is not a list of descriptors (a string that is no JSON
\* array, or a value that is neither string nor list) and reports that there
\* are no interactive elements exactly when the result is an empty list; after
\* an extraction failure the mapping is empty and lastSnapshotUrl is what it
\* was.
C20_ExtractionFailureOutcome ==
    [][(last'.tool = "inspect_page" /\ last'.text \in EvalKinds) =>
          /\ (last'.outcome = "ExtractionFailure") <=> (last'.text \in {"badjson", "errstr", "other"})
          /\ (last'.outcome = "NoElements") <=>
                (last'.text \in {"list", "json"} /\ Scan(pageDoc'[current_page']) = << >>)
          /\ ~last'.raised
          /\ last'.outcome = "ExtractionFailure" =>
                (MapIsEmpty' /\ last_inspected_url' = last_inspected_url)]_vars

\* C20 witness: the evaluation on a page with interactive elements, snapshotted
\* before, returned an error string.
C20_Witness ==
    /\ last.tool = "inspect_page" /\ last.outcome = "ExtractionFailure" /\ last.text = "errstr"
    /\ MapIsEmpty
    /\ last_inspected_url # NoUrl /\ ActiveUrl = last_inspected_url
    /\ Scan(pageDoc[current_page]) # << >>

\* The options of the select the index resolves to on the active page, if it
\* resolves to one.
OptionsAt(index) ==
    LET els == Matches(pageDoc[current_page], selector_map[index])
    IN  IF els # << >> /\ els[1].tag = "select" THEN els[1].options ELSE << >>

\* C21 as stated: select_dropdown_option selects by exact visible text: it
\* selects the value of the first option whose text equals the text asked for,
\* and when no option's text equals it (it is only an option's value, or
\* differs by surrounding blanks) it reports that the option was not found and
\* selects nothing.
C21_ExactTextMatch ==
    [][(/\ browser /\ current_page # NoPage
        /\ last'.tool = "select_dropdown_option"
        /\ last'.index \in DOMAIN selector_map) =>
          LET opts == OptionsAt(last'.index)
              hits == {i \in 1..Len(opts) : opts[i].text = last'.text}
          IN  IF hits = {}
              THEN last'.outcome = "NotFound" /\ last'.url = NoUrl
              ELSE /\ last'.outcome \in {"Ok", "StaleElement"}
                   /\ last'.outcome = "Ok" =>
                         last'.url = opts[CHOOSE i \in hits : \A j \in hits : i <= j].value]_vars

\* C21 as amended: the same with the text asked for and the options' texts
\* compared after their surrounding blanks are trimmed; a text that is only an
\* option's value is never found.
C21_TrimmedTextMatch ==
    [][(/\ browser /\ current_page # NoPage
        /\ last'.tool = "select_dropdown_option"
        /\ last'.index \in DOMAIN selector_map) =>
          LET opts == OptionsAt(last'.index)
              hits == {i \in 1..Len(opts) :
                          \/ opts[i].text = last'.text
                          \/ last'.text = " Blue " /\ opts[i].text = "Blue"}
          IN  /\ IF hits = {}
                 THEN last'.outcome = "NotFound" /\ last'.url = NoUrl
                 ELSE /\ last'.outcome \in {"Ok", "StaleElement"}
                      /\ last'.outcome = "StaleElement" => last'.url = NoUrl
                      /\ last'.outcome = "Ok" =>
                            last'.url = opts[CHOOSE i \in hits : \A j \in hits : i <= j].value
              /\ last'.text = "b" => last'.outcome # "Ok"]_vars

\* C21 witness: the text " Blue " selected the option Blue, of value b.
C21_Witness ==
    /\ last.tool = "select_dropdown_option" /\ last.outcome = "Ok"
    /\ last.text = " Blue " /\ last.url = "b" /\ last.acted = 3

\* C22: click_element with an index that resolves to a file-upload input
\* dispatches no click, returns the refusal text and leaves the mapping,
\* lastSnapshotUrl, the active page and the open pages as they were.
C22_FileInputNotClicked ==
    [][(/\ browser /\ current_page # NoPage
        /\ last'.tool = "click_element"
        /\ last'.index \in DOMAIN selector_map
        /\ Matches(pageDoc[current_page], selector_map[last'.index]) # << >>
        /\ Matches(pageDoc[current_page], selector_map[last'.index])[1].tag = "input"
        /\ Matches(pageDoc[current_page], selector_map[last'.index])[1].type = "file") =>
          /\ last'.outcome = "FilePicker"
          /\ last'.acted = NoElement
          /\ UNCHANGED <<selector_map, last_inspected_url, current_page, pageDoc>>]_vars

\* C23: when calls overlap, the mapping a completed snapshot leaves behind was
\* scanned on the active page, and the snapshot URL that goes with it is the
\* URL that page was at when it was scanned.
C23_SnapshotSerialized ==
    (last.tool = "inspect_page" /\ last.outcome = "Ok")
        => /\ last.ord = current_page
           /\ last.url = last_inspected_url

\* C24: in one snapshot of a tree, two distinct visible interactive elements
\* get the same locator only if the walk of one of them was cut by the cap;
\* no locator has more than MaxLevels levels; no two listed entries share a
\* locator; and a listed locator queried on the same tree finds the element
\* it was computed from.
VisibleInteractive(t) == {el \in Interactive(t) : isVisible(t, el)}
C24_DistinctUnlessCut ==
    scan.done =>
        \A m, n \in VisibleInteractive(scan.dom) :
            (m # n /\ cssPath(scan.dom, m) = cssPath(scan.dom, n))
                => (WalkCut(scan.dom, m, 0) \/ WalkCut(scan.dom, n, 0))
C24_AtMostMaxLevels ==
    \A j \in 1..Len(scan.items) : Len(scan.items[j].selector) <= MaxLevels
C24_ListedLocatorsDiffer ==
    \A i, j \in 1..Len(scan.items) :
        i # j => scan.items[i].selector # scan.items[j].selector
C24_RequeryFindsElement ==
    scan.picked # 0 => scan.items[scan.picked].node \in scan.hits
C24_Locators ==
    /\ C24_DistinctUnlessCut
    /\ C24_AtMostMaxLevels
    /\ C24_ListedLocatorsDiffer
    /\ C24_RequeryFindsElement

\* C25: a call of any tool but inspect_page leaves the mapping as it was,
\* removes one index from it, or empties it; so it adds no index and changes
\* the locator of none.
C25_OnlySnapshotAdds ==
    [][last'.tool # "inspect_page"
         => \/ selector_map' = selector_map
            \/ selector_map' = EmptyMap
            \/ \E i \in DOMAIN selector_map :
                  /\ DOMAIN selector_map' = DOMAIN selector_map \ {i}
                  /\ \A j \in DOMAIN selector_map' : selector_map'[j] = selector_map[j]]_vars
\* A stale index was evicted from a mapping of two and the other index, with
\* its locator, is still there.
C25_Witness ==
    /\ last.tool \in {"click_element", "input_text"}
    /\ last.stale
    /\ last.index \notin DOMAIN selector_map
    /\ \E i \in DOMAIN selector_map : i > last.index

\* The URL of the document the element of index i was scanned in.
ScannedAt(i) == DocUrl(CHOOSE d \in DocNames : \E k \in 1..Len(NodesOf[d]) : NodesOf[d][k].id = denoted[i])
\* C26: whenever the mapping is non-empty, lastSnapshotUrl is present and is
\* the URL the elements of the mapping were scanned at; and no call changes
\* lastSnapshotUrl and leaves a non-empty mapping in place.
C26_MapComesWithItsUrl ==
    [][/\ ~MapIsEmpty' =>
             /\ last_inspected_url' # NoUrl
             /\ \A i \in DOMAIN selector_map' : ScannedAt(i)' = last_inspected_url'
       /\ (last_inspected_url' # last_inspected_url /\ ~MapIsEmpty')
             => (last'.tool = "inspect_page" /\ ~last'.raised)]_vars

\* C27: after every step that made another page the active page (open_tab,
\* switch_tab, a click that opened a page, initialize_browser, or the page
\* that _require_page creates when there is none) the mapping is empty.
C27_NoCarryOver ==
    [][(/\ current_page' # NoPage
        /\ current_page' # current_page \/ last'.tool = "initialize_browser")
          => MapIsEmpty']_vars

\* The tools that neither navigate nor retarget.
FrameTools == {"wait", "scroll_down", "scroll_up", "scroll_to_text", "get_dropdown_options",
               "validate_page", "done"}
\* They leave the active page, the mapping and lastSnapshotUrl as they were.
FrameKept ==
    /\ current_page' = current_page
    /\ selector_map' = selector_map
    /\ last_inspected_url' = last_inspected_url
\* C28 as stated: in every state with a session, a call of one of these tools
\* leaves the active page, the mapping and lastSnapshotUrl as they were.
C28_FrameKeptInSession ==
    [][(last'.tool \in FrameTools /\ browser) => FrameKept]_vars
\* C28: in every state with an active page, and for wait and done in every
\* state, a call of one of these tools leaves the active page, the mapping
\* and lastSnapshotUrl as they were.
C28_FrameKeptWithPage ==
    [][(/\ last'.tool \in FrameTools
        /\ current_page # NoPage \/ last'.tool \in {"wait", "done"}) => FrameKept]_vars
\* C28 witness: get_dropdown_options listed the options of an element on the
\* second page and both indices of the snapshot are still in the mapping.
C28_Witness ==
    /\ last.tool = "get_dropdown_options" /\ last.outcome = "Ok"
    /\ current_page = 2
    /\ DOMAIN selector_map = {1, 2}
    /\ last_inspected_url = "A"
====
